---- MODULE Spec2Model ----
(***************************************************************************)
(* Placement engine of Card-Creation.py: is_collision, find_free_position  *)
(* and create_miro_element, run by up to two callers against one live      *)
(* board.                                                                  *)
(*                                                                         *)
(* Arithmetic.  Python computes 0.1 * width and width / 2 in floating      *)
(* point.  The model uses exact arithmetic: every quantity compared in     *)
(* is_collision is carried multiplied by 10, so that width / 2 is          *)
(* 5 * width and 0.1 * width is width, all integers.  Coordinates and      *)
(* sizes are integers.                                                     *)
(*                                                                         *)
(* The board.  canvas is the ordered list of item geometries the board     *)
(* holds; get_items returns it as it is at the time of the call, and a     *)
(* POST answered 201 appends the geometry the caller computed.             *)
(***************************************************************************)
EXTENDS Integers, Sequences, FiniteSets, TLC

VARIABLES canvas, call

vars == <<canvas, call>>

Procs == {1, 2}

(* ---------------- program constants ---------------- *)

\* create_miro_element: width = max(width, 256)
MinWidth == 256
\* find_free_position's defaults, used by create_miro_element
default_initial_step == 50
default_max_attempts == 10000
default_increase_step_interval == 100

(* ---------------- bounds of the model ---------------- *)

\* direct calls of find_free_position pass max_attempts in 0..MaxAttemptsBound
MaxAttemptsBound == 9
\* the small increase_step_interval passed by direct calls
SmallInterval == 3
\* half the side of the obstacle that covers every position of a default search
HugeHalf == 1000000

(* ---------------- geometry ---------------- *)

Rect(px, py, w, h) == [x |-> px, y |-> py, width |-> w, height |-> h]

Max(a, b) == IF a >= b THEN a ELSE b

\* One existing item against the expanded new item; all quantities times 10.
collision_x_mut(new_x, new_width, e) ==
    LET clear_x == new_width
        expanded_new_x == 10 * new_x - 5 * new_width - clear_x
        expanded_new_width == 10 * new_width + 2 * clear_x
        existing_top_left_x == 10 * e.x - 5 * e.width
    IN  /\ expanded_new_x + expanded_new_width > existing_top_left_x
        /\ expanded_new_x < existing_top_left_x + 10 * e.width

collision_x(new_x, new_width, e) ==
    LET clear_x == new_width
        expanded_new_x == 10 * new_x - 5 * new_width - clear_x
        expanded_new_width == 10 * new_width + 2 * clear_x
        existing_top_left_x == 10 * e.x - 5 * e.width
    IN  /\ expanded_new_x + expanded_new_width >= existing_top_left_x
        /\ expanded_new_x <= existing_top_left_x + 10 * e.width

collision_y_mut(new_y, new_height, e) ==
    LET clear_y == new_height
        expanded_new_y == 10 * new_y - 5 * new_height - clear_y
        expanded_new_height == 10 * new_height + 2 * clear_y
        existing_top_left_y == 10 * e.y - 5 * e.height
    IN  /\ expanded_new_y + expanded_new_height > existing_top_left_y
        /\ expanded_new_y < existing_top_left_y + 10 * e.height

collision_y(new_y, new_height, e) ==
    LET clear_y == new_height
        expanded_new_y == 10 * new_y - 5 * new_height - clear_y
        expanded_new_height == 10 * new_height + 2 * clear_y
        existing_top_left_y == 10 * e.y - 5 * e.height
    IN  /\ expanded_new_y + expanded_new_height >= existing_top_left_y
        /\ expanded_new_y <= existing_top_left_y + 10 * e.height

\* np.any(collision_x & collision_y) over the rows of existing_items
is_collision(new_x, new_y, new_width, new_height, existing_items) ==
    \E i \in 1..Len(existing_items) :
        /\ collision_x(new_x, new_width, existing_items[i])
        /\ collision_y(new_y, new_height, existing_items[i])

(* ---------------- adjust_card_height ---------------- *)

\* A title is abstracted to len, the number of characters outside "<br>",
\* and brs, the number of "<br>" it holds.
adjust_card_height(title, height) ==
    LET title_length == title.len
        extra_height == IF title_length > 13
                        THEN ((title_length - 1) \div 13) * 25 ELSE 0
        line_breaks_height == title.brs * 20
    IN  height + extra_height + line_breaks_height

(* ---------------- find_free_position ---------------- *)

directions_of(step) == <<<<step, 0>>, <<0, step>>, <<0 - step, 0>>, <<0, 0 - step>>>>

\* lines 182-188: the locals of a search starting at the call's x, y
search_locals(c, initial_step, max_attempts, increase_step_interval) ==
    [c EXCEPT !.initial_step = initial_step,
              !.max_attempts = max_attempts,
              !.increase_step_interval = increase_step_interval,
              !.step = initial_step,
              !.attempts = 0,
              !.directions = directions_of(initial_step),
              !.direction_index = 0,
              !.steps_in_current_leg = 1,
              !.steps_taken = 0,
              !.leg_increase_triggered = FALSE,
              !.pc = "while"]

\* line 190: the loop condition
while_cond_mut(c) == c.attempts < c.max_attempts

while_cond_do_while(c) ==
    /\ c.attempts = 0 \/ is_collision(c.x, c.y, c.width, c.height, c.existing_items)
    /\ c.attempts < c.max_attempts

while_cond_off_by_one(c) ==
    /\ is_collision(c.x, c.y, c.width, c.height, c.existing_items)
    /\ c.attempts <= c.max_attempts

while_cond(c) ==
    /\ is_collision(c.x, c.y, c.width, c.height, c.existing_items)
    /\ c.attempts < c.max_attempts

\* lines 191-205: one iteration of the loop body
loop_body_every_turn(c) ==
    LET d == c.directions[c.direction_index + 1]
        attempts1 == c.attempts + 1
        steps_taken1 == c.steps_taken + 1
        grow == attempts1 % c.increase_step_interval = 0
        step1 == IF grow THEN c.step + c.initial_step ELSE c.step
        turn == steps_taken1 = c.steps_in_current_leg
    IN  [c EXCEPT !.x = c.x + d[1],
                  !.y = c.y + d[2],
                  !.attempts = attempts1,
                  !.step = step1,
                  !.directions = IF grow THEN directions_of(step1) ELSE c.directions,
                  !.direction_index = IF turn THEN (c.direction_index + 1) % 4
                                      ELSE c.direction_index,
                  !.steps_taken = IF turn THEN 0 ELSE steps_taken1,
                  !.steps_in_current_leg =
                      IF turn THEN c.steps_in_current_leg + 1
                      ELSE c.steps_in_current_leg,
                  !.leg_increase_triggered =
                      IF turn THEN ~c.leg_increase_triggered
                      ELSE c.leg_increase_triggered]

loop_body_growth_restarts_leg(c) ==
    LET d == c.directions[c.direction_index + 1]
        attempts1 == c.attempts + 1
        steps_taken1 == c.steps_taken + 1
        grow == attempts1 % c.increase_step_interval = 0
        step1 == IF grow THEN c.step + c.initial_step ELSE c.step
        turn == steps_taken1 = c.steps_in_current_leg
    IN  [c EXCEPT !.x = c.x + d[1],
                  !.y = c.y + d[2],
                  !.attempts = attempts1,
                  !.step = step1,
                  !.directions = IF grow THEN directions_of(step1) ELSE c.directions,
                  !.direction_index = IF turn THEN (c.direction_index + 1) % 4
                                      ELSE c.direction_index,
                  !.steps_taken = IF turn \/ grow THEN 0 ELSE steps_taken1,
                  !.steps_in_current_leg =
                      IF turn /\ c.leg_increase_triggered
                      THEN c.steps_in_current_leg + 1 ELSE c.steps_in_current_leg,
                  !.leg_increase_triggered =
                      IF turn THEN ~c.leg_increase_triggered
                      ELSE c.leg_increase_triggered]

loop_body(c) ==
    LET d == c.directions[c.direction_index + 1]
        attempts1 == c.attempts + 1
        steps_taken1 == c.steps_taken + 1
        grow == attempts1 % c.increase_step_interval = 0
        step1 == IF grow THEN c.step + c.initial_step ELSE c.step
        turn == steps_taken1 = c.steps_in_current_leg
    IN  [c EXCEPT !.x = c.x + d[1],
                  !.y = c.y + d[2],
                  !.attempts = attempts1,
                  !.step = step1,
                  !.directions = IF grow THEN directions_of(step1) ELSE c.directions,
                  !.direction_index = IF turn THEN (c.direction_index + 1) % 4
                                      ELSE c.direction_index,
                  !.steps_taken = IF turn THEN 0 ELSE steps_taken1,
                  !.steps_in_current_leg =
                      IF turn /\ c.leg_increase_triggered
                      THEN c.steps_in_current_leg + 1 ELSE c.steps_in_current_leg,
                  !.leg_increase_triggered =
                      IF turn THEN ~c.leg_increase_triggered
                      ELSE c.leg_increase_triggered]

\* lines 207-208: the "Unable to find a free spot" report
exhausted_report(c) == c.attempts = c.max_attempts

(* ---------------- inputs ---------------- *)

Anchors == {<<0, 0>>, <<40, -30>>}
Widths == {0, 100, 300}
Heights == {-20, 0, 20, 300}
\* element type with the title it is created with
Elements == {<<"card", [len |-> 5, brs |-> 0]>>,
             <<"card", [len |-> 14, brs |-> 1]>>,
             <<"sticky_note", [len |-> 5, brs |-> 0]>>,
             <<"text", [len |-> 5, brs |-> 0]>>}

Canvases == {<<>>,
             <<Rect(0, 0, 40, 76)>>,
             <<Rect(0, 0, 300, 300)>>,
             <<Rect(25, -20, 60, 30), Rect(-200, -200, 20, 20)>>,
             <<Rect(0, 0, 2 * HugeHalf, 2 * HugeHalf)>>}

\* get_items: the rows of the board as they are now, every page of them
get_items_first_page == IF canvas = <<>> THEN <<>> ELSE <<canvas[1]>>

get_items == canvas

\* line 119: the search is skipped on an empty board
board_empty_mut(existing_items) == FALSE

board_empty(existing_items) == existing_items = <<>>

\* build_payload returns a url for these element types only
valid_type(element_type) == element_type \in {"card", "sticky_note", "shape"}

\* the geometry create_miro_element posts
item_of(c) == Rect(c.x, c.y, c.width, c.height)

\* the locals of a call before it starts
NewCall(pc0, et, title, a, w, h, items, s0, n, k) ==
    [pc |-> pc0, entry |-> "none", element_type |-> et, title |-> title,
     anchor_x |-> a[1], anchor_y |-> a[2],
     arg_width |-> w, arg_height |-> h,
     x |-> a[1], y |-> a[2], width |-> w, height |-> h,
     existing_items |-> items, fetched |-> 0,
     initial_step |-> s0, max_attempts |-> n, increase_step_interval |-> k,
     step |-> 0, attempts |-> 0, directions |-> directions_of(0),
     direction_index |-> 0, steps_in_current_leg |-> 1, steps_taken |-> 0,
     leg_increase_triggered |-> FALSE,
     tests |-> 0, reported |-> FALSE, sent |-> FALSE, created |-> 0]

NoTitle == [len |-> 0, brs |-> 0]

Off == NewCall("off", "none", NoTitle, <<0, 0>>, 0, 0, <<>>, 0, 0, 1)

\* a direct call of find_free_position(x, y, width, height, existing_items, ...)
FindCalls(items) ==
    {NewCall("call_find", "none", NoTitle, a, w, h, items,
             default_initial_step, n, k) :
        a \in Anchors, w \in Widths, h \in Heights,
        n \in 0..MaxAttemptsBound,
        k \in {SmallInterval, default_increase_step_interval}}

\* a call of create_miro_element(element_type, title, width, height, x, y)
PlaceCalls(ws, hs) ==
    {NewCall("call_place", el[1], el[2], a, w, h, <<>>, 0, 0, 1) :
        el \in Elements, a \in Anchors, w \in ws, h \in hs}

Init ==
    /\ canvas \in Canvases
    /\ \E c \in FindCalls(canvas) \cup PlaceCalls(Widths, Heights) :
           call = [p \in Procs |-> IF p = 1 THEN c ELSE Off]

(* ---------------- actions ---------------- *)

\* find_free_position called directly: lines 182-188
find_free_position(p) ==
    /\ call[p].pc = "call_find"
    /\ call' = [call EXCEPT ![p] =
           search_locals([@ EXCEPT !.entry = "find"], @.initial_step,
                         @.max_attempts, @.increase_step_interval)]
    /\ UNCHANGED canvas

\* create_miro_element, lines 115-120: the height of a card is adjusted, the
\* width is clamped, the board is read, and the search starts unless the board
\* is empty
create_miro_element(p) ==
    /\ call[p].pc = "call_place"
    /\ LET c == call[p]
           height1 == IF c.element_type = "card"
                      THEN adjust_card_height(c.title, c.height) ELSE c.height
           width1 == Max(c.width, MinWidth)
           existing == get_items
           c1 == [c EXCEPT !.entry = "place", !.height = height1, !.width = width1,
                           !.existing_items = existing, !.fetched = Len(canvas)]
       IN  call' = [call EXCEPT ![p] =
               IF ~board_empty(existing)
               THEN search_locals(c1, default_initial_step, default_max_attempts,
                                  default_increase_step_interval)
               ELSE [c1 EXCEPT !.pc = "build"]]
    /\ UNCHANGED canvas

\* line 190 true, lines 191-205: the position moves one step along the spiral
while_iter(p) ==
    /\ call[p].pc = "while"
    /\ while_cond(call[p])
    /\ call' = [call EXCEPT ![p] = [loop_body(@) EXCEPT !.tests = @ + 1]]
    /\ UNCHANGED canvas

\* line 190 false, lines 207-210: the search returns x, y
while_exit(p) ==
    /\ call[p].pc = "while"
    /\ ~while_cond(call[p])
    /\ call' = [call EXCEPT ![p] =
           [@ EXCEPT !.tests = @ + 1,
                     !.reported = exhausted_report(call[p]),
                     !.pc = IF call[p].entry = "place" THEN "build" ELSE "done"]]
    /\ UNCHANGED canvas

\* lines 122-134 and send_request: no request for an unknown element type;
\* otherwise the geometry is posted and the board answers 201, adding the
\* item, or refuses
send_request(p) ==
    /\ call[p].pc = "build"
    /\ IF ~valid_type(call[p].element_type)
       THEN /\ call' = [call EXCEPT ![p].pc = "done"]
            /\ UNCHANGED canvas
       ELSE \E status \in {201, 400} :
            /\ canvas' = IF status = 201 THEN Append(canvas, item_of(call[p]))
                         ELSE canvas
            /\ call' = [call EXCEPT ![p].pc = "done", ![p].sent = TRUE,
                                    ![p].created = IF status = 201
                                                   THEN Len(canvas) + 1 ELSE 0]

Next ==
    \E p \in Procs :
        \/ find_free_position(p)
        \/ create_miro_element(p)
        \/ while_iter(p)
        \/ while_exit(p)
        \/ send_request(p)

Spec == Init /\ [][Next]_vars

(* ---------------- two callers of create_miro_element ---------------- *)

ConcWidths == {300}
ConcHeights == {20, 300}
ConcCanvases == {<<>>, <<Rect(0, 0, 40, 76)>>}

ConcInit ==
    /\ canvas \in ConcCanvases
    /\ call \in [Procs -> PlaceCalls(ConcWidths, ConcHeights)]

ConcNext ==
    \E p \in Procs :
        \/ create_miro_element(p)
        \/ while_iter(p)
        \/ while_exit(p)
        \/ send_request(p)

ConcSpec == ConcInit /\ [][ConcNext]_vars


(* ---------------- reference notions used by the properties ---------------- *)

\* The new item, grown on every side by a tenth of its own size, and the
\* existing item e at its true size, both by centre: their X intervals and
\* their Y intervals meet, bounds included (all quantities times 10).
BoxesMeet(px, py, w, h, e) ==
    /\ 10 * px - 6 * w <= 10 * e.x + 5 * e.width
    /\ 10 * px + 6 * w >= 10 * e.x - 5 * e.width
    /\ 10 * py - 6 * h <= 10 * e.y + 5 * e.height
    /\ 10 * py + 6 * h >= 10 * e.y - 5 * e.height

MeetsSome(px, py, w, h, items) ==
    \E i \in 1..Len(items) : BoxesMeet(px, py, w, h, items[i])

\* the search of call c has returned
Returned(c) == c.pc \in {"build", "done"} /\ c.tests > 0

\* call c has handed its position to the creation sink
Emitted(c) == c.entry = "place" /\ c.sent

Collides(c) == is_collision(c.x, c.y, c.width, c.height, c.existing_items)

(* ---------------- C1 ---------------- *)

\* C1 as claimed: every position create_miro_element emits for a non-empty
\* snapshot is one where the new item, grown by its margin, meets no item of
\* the snapshot.  (Stated for items of positive size, so that a violation
\* does not rest on a degenerate size.)
C1_NoOverlapAlways ==
    \A p \in Procs :
        /\ Emitted(call[p])
        /\ call[p].existing_items # <<>>
        /\ call[p].arg_width > 0 /\ call[p].arg_height > 0
        => ~MeetsSome(call[p].x, call[p].y, call[p].width, call[p].height,
                      call[p].existing_items)

\* C1 amended: the emitted position meets no item of the snapshot unless the
\* search made max_attempts moves.
C1_NoOverlapUnlessExhausted ==
    \A p \in Procs :
        /\ Emitted(call[p])
        /\ call[p].existing_items # <<>>
        /\ call[p].attempts < call[p].max_attempts
        => ~MeetsSome(call[p].x, call[p].y, call[p].width, call[p].height,
                      call[p].existing_items)

C1_Witness ==
    \E p \in Procs :
        /\ Emitted(call[p])
        /\ call[p].existing_items # <<>>
        /\ call[p].attempts > default_increase_step_interval
        /\ call[p].attempts < call[p].max_attempts
        /\ call[p].created > 0

(* ---------------- C2 ---------------- *)

\* C2: is_collision is true exactly when some snapshot item meets the grown
\* new item on both axes, bounds included; an item of positive size collides
\* with itself; nothing collides with an empty snapshot.
C2_CollisionIffBoxesMeet ==
    \A p \in Procs :
        LET c == call[p] IN
        /\ is_collision(c.x, c.y, c.width, c.height, c.existing_items)
             <=> MeetsSome(c.x, c.y, c.width, c.height, c.existing_items)
        /\ c.width > 0 /\ c.height > 0
             => is_collision(c.x, c.y, c.width, c.height,
                             <<Rect(c.x, c.y, c.width, c.height)>>)
        /\ ~is_collision(c.x, c.y, c.width, c.height, <<>>)

\* a tested position whose grown box exactly touches the top edge of an item
C2_Witness ==
    \E p \in Procs :
        LET c == call[p] IN
        /\ c.pc = "while"
        /\ c.width > 0 /\ c.height > 0
        /\ Len(c.existing_items) = 1
        /\ 10 * c.y - 6 * c.height = 10 * c.existing_items[1].y
                                       + 5 * c.existing_items[1].height
        /\ Collides(c)

(* ---------------- C3 ---------------- *)

\* C3: the attempts counter never exceeds max_attempts, and the collision
\* test has run on at most max_attempts + 1 positions, the anchor and one per
\* move.
C3_BoundedAttempts ==
    \A p \in Procs :
        LET c == call[p] IN
        /\ c.attempts <= c.max_attempts
        /\ c.tests <= c.max_attempts + 1
        /\ c.pc = "while" => c.tests = c.attempts
        /\ Returned(c) => c.tests = c.attempts + 1

C3_Witness ==
    \E p \in Procs :
        /\ Returned(call[p])
        /\ call[p].max_attempts > 0
        /\ call[p].attempts = call[p].max_attempts
        /\ call[p].tests = call[p].max_attempts + 1

(* ---------------- C4 ---------------- *)

\* C4 as claimed: a call given width <= 0 or height <= 0 tests no position,
\* makes no move, returns no position and emits none.
C4_InvalidGeometryRejected ==
    \A p \in Procs :
        LET c == call[p] IN
        c.arg_width <= 0 \/ c.arg_height <= 0
        => /\ c.tests = 0
           /\ c.attempts = 0
           /\ ~c.sent
           /\ ~(c.entry = "find" /\ c.pc = "done")

(* ---------------- C5 ---------------- *)

\* C5 as claimed: the search reports exhaustion exactly when the position it
\* returns still collides with the snapshot.
C5_ReportIffStillColliding ==
    \A p \in Procs :
        Returned(call[p]) => (call[p].reported <=> Collides(call[p]))


(* ---------------- C6 ---------------- *)

\* C6: the search returns the first free position in its visit order: a
\* search whose anchor is free returns the anchor after zero moves, every
\* move leaves a position that collides, and after the search has returned
\* the position does not change.
C6_FirstFreeInVisitOrder ==
    /\ [](\A p \in Procs :
            LET c == call[p] IN
            /\ Returned(c)
            /\ ~is_collision(c.anchor_x, c.anchor_y, c.width, c.height,
                             c.existing_items)
            => c.x = c.anchor_x /\ c.y = c.anchor_y /\ c.attempts = 0)
    /\ [][\A p \in Procs :
            \/ call'[p].x # call[p].x
            \/ call'[p].y # call[p].y
            \/ call'[p].attempts # call[p].attempts
            => /\ call[p].pc = "while"
               /\ Collides(call[p])
               /\ call'[p].attempts = call[p].attempts + 1]_vars

C6_Witness ==
    \E p \in Procs :
        /\ Returned(call[p])
        /\ call[p].attempts > 1
        /\ call[p].attempts < call[p].max_attempts
        /\ ~Collides(call[p])

(* ---------------- C7 ---------------- *)

\* C7: create_miro_element on an empty board keeps the requested anchor,
\* whatever the size, runs no search and reports no exhaustion; the item
\* the board then holds is at the anchor.
C7_EmptyCanvasKeepsAnchor ==
    \A p \in Procs :
        LET c == call[p] IN
        c.entry = "place" /\ c.fetched = 0
        => /\ c.x = c.anchor_x /\ c.y = c.anchor_y
           /\ c.tests = 0 /\ c.attempts = 0 /\ c.pc # "while"
           /\ ~c.reported
           /\ c.created > 0 => /\ canvas[c.created].x = c.anchor_x
                               /\ canvas[c.created].y = c.anchor_y

C7_Witness ==
    \E p \in Procs :
        /\ call[p].entry = "place" /\ call[p].fetched = 0
        /\ call[p].created > 0
        /\ call[p].arg_height = 300 /\ call[p].arg_width = 100

(* ---------------- C8 ---------------- *)

\* the locals of call c's search after j moves along its path, whatever
\* collides
RECURSIVE PathState(_, _)
PathState(c, j) ==
    IF j = 0
    THEN search_locals([c EXCEPT !.x = c.anchor_x, !.y = c.anchor_y],
                       c.initial_step, c.max_attempts, c.increase_step_interval)
    ELSE loop_body(PathState(c, j - 1))

FreeAt(c, q) == ~is_collision(q.x, q.y, c.width, c.height, c.existing_items)

Dist2(c, q) ==
    (q.x - c.anchor_x) * (q.x - c.anchor_x) + (q.y - c.anchor_y) * (q.y - c.anchor_y)

\* the searches whose whole path the properties walk
ShortSearch(c) == Returned(c) /\ c.max_attempts <= MaxAttemptsBound

\* C8 as claimed: when the search returns a free position, no position of its
\* path within max_attempts moves is free and strictly closer to the anchor.
\* (Stated for items of positive size.)
C8_NearestFree ==
    \A p \in Procs :
        LET c == call[p] IN
        ShortSearch(c) /\ ~Collides(c) /\ c.arg_width > 0 /\ c.arg_height > 0
        => \A j \in 0..c.max_attempts :
               FreeAt(c, PathState(c, j)) => Dist2(c, PathState(c, j)) >= Dist2(c, c)

\* C8 amended: when the search returns a free position, it is the position
\* of its path after attempts moves, and no position earlier on the path is
\* free.
C8_EarliestFree ==
    \A p \in Procs :
        LET c == call[p] IN
        ShortSearch(c) /\ ~Collides(c)
        => /\ c.x = PathState(c, c.attempts).x
           /\ c.y = PathState(c, c.attempts).y
           /\ \A j \in 0..(c.attempts - 1) : ~FreeAt(c, PathState(c, j))

\* a returned free position with a free, strictly closer position later on
\* the path
C8_Witness ==
    \E p \in Procs :
        LET c == call[p] IN
        /\ ShortSearch(c) /\ ~Collides(c)
        /\ c.arg_width > 0 /\ c.arg_height > 0
        /\ c.attempts > 0
        /\ \E j \in (c.attempts + 1)..c.max_attempts :
               FreeAt(c, PathState(c, j)) /\ Dist2(c, PathState(c, j)) < Dist2(c, c)


(* ---------------- C9 ---------------- *)

\* two items of the board share a point
ItemsMeet(a, b) ==
    /\ 10 * a.x - 5 * a.width <= 10 * b.x + 5 * b.width
    /\ 10 * a.x + 5 * a.width >= 10 * b.x - 5 * b.width
    /\ 10 * a.y - 5 * a.height <= 10 * b.y + 5 * b.height
    /\ 10 * a.y + 5 * a.height >= 10 * b.y - 5 * b.height

\* two items of the board share an area
ItemsOverlap(a, b) ==
    /\ 10 * a.x - 5 * a.width < 10 * b.x + 5 * b.width
    /\ 10 * a.x + 5 * a.width > 10 * b.x - 5 * b.width
    /\ 10 * a.y - 5 * a.height < 10 * b.y + 5 * b.height
    /\ 10 * a.y + 5 * a.height > 10 * b.y - 5 * b.height

\* call c chose a position that is free in its own snapshot
FreeInOwnSnapshot(c) ==
    ~MeetsSome(c.x, c.y, c.width, c.height, c.existing_items)

Min(a, b) == IF a <= b THEN a ELSE b

\* the unit vectors in the order +x, +y, -x, -y
UnitDir(i) ==
    CASE i = 0 -> <<1, 0>> [] i = 1 -> <<0, 1>>
      [] i = 2 -> <<-1, 0>> [] i = 3 -> <<0, -1>>

\* the length of leg n = 1, 2, 3, ...: 1, 1, 2, 2, 3, 3, ...
LegLength(n) == (n + 1) \div 2

\* the offset, in steps, after k moves that start with leg n
RECURSIVE SquareSpiral(_, _)
SquareSpiral(k, n) ==
    IF k = 0 THEN <<0, 0>>
    ELSE LET m == Min(k, LegLength(n))
             rest == SquareSpiral(k - m, n + 1)
             u == UnitDir((n - 1) % 4)
         IN  <<m * u[1] + rest[1], m * u[2] + rest[2]>>

FirstEight ==
    <<<<50, 0>>, <<50, 50>>, <<0, 50>>, <<-50, 50>>,
      <<-50, 0>>, <<-50, -50>>, <<0, -50>>, <<50, -50>>>>

\* C10: as long as no more than increase_step_interval moves were made, the
\* position after k moves is the anchor plus initial_step times the k-th
\* point of the square spiral with directions +x, +y, -x, -y and leg lengths
\* 1, 1, 2, 2, 3, 3, ...; from (0, 0) with initial_step 50 the first eight
\* positions are (50,0), (50,50), (0,50), (-50,50), (-50,0), (-50,-50),
\* (0,-50), (50,-50).
C10_SpiralPath ==
    \A p \in Procs :
        LET c == call[p] IN
        c.pc \in {"while", "build", "done"} /\ c.attempts <= c.increase_step_interval
        => /\ c.x = c.anchor_x + c.initial_step * SquareSpiral(c.attempts, 1)[1]
           /\ c.y = c.anchor_y + c.initial_step * SquareSpiral(c.attempts, 1)[2]
           /\ /\ c.anchor_x = 0 /\ c.anchor_y = 0
              /\ c.initial_step = 50
              /\ c.attempts \in 1..8
              => <<c.x, c.y>> = FirstEight[c.attempts]

C10_Witness ==
    \E p \in Procs :
        LET c == call[p] IN
        /\ c.pc = "while"
        /\ c.anchor_x = 0 /\ c.anchor_y = 0
        /\ c.initial_step = 50
        /\ c.attempts = 8
        /\ c.x = 50 /\ c.y = -50
        /\ c.increase_step_interval > 8


(* ---------------- C11 ---------------- *)

Abs(a) == IF a >= 0 THEN a ELSE 0 - a

\* the leg and the steps taken in it after k moves that start leg n, in a
\* walk whose step never grows
RECURSIVE LegWalk(_, _)
LegWalk(k, n) ==
    IF k < LegLength(n) THEN <<n, k>> ELSE LegWalk(k - LegLength(n), n + 1)

\* the moves made before leg n starts, in such a walk: the sum of the lengths
\* 1, 1, 2, 2, ... of the legs 1..n-1
MovesBeforeLeg(n) ==
    IF n % 2 = 1 THEN ((n - 1) \div 2) * ((n + 1) \div 2)
    ELSE (n \div 2) * (n \div 2)

\* the step magnitude in force after n attempts
StepAfter(c, n) == c.initial_step * (1 + n \div c.increase_step_interval)

\* C11: the move made after n attempts is along one axis and has magnitude
\* initial_step * (1 + n \div increase_step_interval), so moves
\* 1..increase_step_interval have magnitude initial_step and the next one is
\* the first of twice that; the step never decreases; and the direction
\* index, the steps taken in the leg, the leg length and the leg toggle are
\* at every moment those of a walk of as many moves whose step never grows.
C11_StepGrowth ==
    /\ [](\A p \in Procs :
            LET c == call[p]
                \* the leg the counters say the walk is in
                n == IF c.leg_increase_triggered THEN 2 * c.steps_in_current_leg
                     ELSE 2 * c.steps_in_current_leg - 1
            IN  c.pc \in {"while", "build", "done"} /\ c.tests > 0
                => /\ c.step = StepAfter(c, c.attempts)
                   /\ c.directions = directions_of(c.step)
                   \* attempts = MovesBeforeLeg(n) + t with 0 <= t < LegLength(n)
                   \* has one solution, the leg and the steps of the walk
                   \* whose step never grows
                   /\ c.steps_in_current_leg = LegLength(n)
                   /\ c.steps_taken >= 0 /\ c.steps_taken < LegLength(n)
                   /\ c.attempts = MovesBeforeLeg(n) + c.steps_taken
                   /\ c.direction_index = (n - 1) % 4
                   /\ c.attempts <= MaxAttemptsBound
                        => <<n, c.steps_taken>> = LegWalk(c.attempts, 1))
    /\ [][\A p \in Procs :
            call'[p].attempts = call[p].attempts + 1
            => LET dx == call'[p].x - call[p].x
                   dy == call'[p].y - call[p].y
               IN  /\ dx = 0 \/ dy = 0
                   /\ Abs(dx) + Abs(dy) = StepAfter(call[p], call[p].attempts)
                   /\ call'[p].step >= call[p].step]_vars

\* the move after increase_step_interval colliding positions has been made:
\* it is the first of magnitude 2 * initial_step, in the direction the pure
\* spiral takes there
C11_Witness ==
    \E p \in Procs :
        LET c == call[p]
            k == c.increase_step_interval
            u == UnitDir((LegWalk(k, 1)[1] - 1) % 4)
        IN  /\ c.pc = "while"
            /\ c.attempts = k + 1
            /\ c.step = 2 * c.initial_step
            /\ c.x = c.anchor_x + c.initial_step * (SquareSpiral(k, 1)[1] + 2 * u[1])
            /\ c.y = c.anchor_y + c.initial_step * (SquareSpiral(k, 1)[2] + 2 * u[2])
            /\ c.steps_taken > 0

====
